---------------------------- MODULE Spec2Model ----------------------------
(***************************************************************************)
(* A model of fp_extractor.py: the format catalog FP_CONFIG, the field     *)
(* extractor (hex_extractor / bin_extractor and the slicing helpers) and   *)
(* the classifier FPExtractor.get_fp_expression.                           *)
(*                                                                         *)
(* Representation.                                                         *)
(*   - A Python str is a sequence of one-character strings.                *)
(*   - Python None is the one-element sequence <<"None">>, which is no     *)
(*     string of digits.                                                   *)
(*   - A Python int that may exceed 31 bits (int(hex_str, 16),             *)
(*     int(self.mantissa, 2)) is kept as its binary numeral without        *)
(*     leading zeros, zero being the empty numeral; py_int builds it and   *)
(*     int_to_nat turns a small one into a number for arithmetic.          *)
(*   - An exception is a record [type, message, echo]; NoException is the  *)
(*     normal return.                                                      *)
(*   - The f-string returned by get_fp_expression is a record of its       *)
(*     parts: kind (the text up to the first colon, or the whole literal), *)
(*     sign, exponent, lead (the digit before the point) and mantissa.     *)
(*                                                                         *)
(* Specifications.                                                         *)
(*   - Spec: one extract_fp_str call on the freshly constructed            *)
(*     extractors, with any input of Inputs, then get_fp_expression on the *)
(*     extractor that decoded.                                             *)
(*   - SessionSpec: up to MaxCalls extract_fp_str calls, with the inputs   *)
(*     of SessionInputs, interleaved with get_fp_expression calls.         *)
(***************************************************************************)
EXTENDS Integers, Sequences, FiniteSets, TLC

VARIABLES
    extractors,   \* GUI.fp_extractors: name -> FPExtractor (fmt_name, fp_fmt, sign, exponent, mantissa)
    call,         \* the latest extract_fp_str call: its receiver, argument and exception
    result,       \* the latest get_fp_expression call since then: receiver, value, exception
    ncalls        \* number of extract_fp_str calls made so far

vars == <<extractors, call, result, ncalls>>

---------------------------------------------------------------------------
(* Python values and built-ins                                             *)

None == <<"None">>

NoException == [type |-> "None", message |-> "", echo |-> <<>>]

Raise(type, message, echo) == [type |-> type, message |-> message, echo |-> echo]

Max(a, b) == IF a >= b THEN a ELSE b

Min(a, b) == IF a <= b THEN a ELSE b

\* str.lower() on one character
lower_char(c) ==
    CASE c = "A" -> "a" [] c = "B" -> "b" [] c = "C" -> "c" [] c = "D" -> "d"
      [] c = "E" -> "e" [] c = "F" -> "f" [] c = "G" -> "g" [] c = "X" -> "x"
      [] c = "Z" -> "z" [] OTHER -> c

\* str.lower()
py_lower(s) == [i \in 1..Len(s) |-> lower_char(s[i])]

\* str.startswith(prefix)
py_startswith(s, prefix) ==
    /\ Len(s) >= Len(prefix)
    /\ \A i \in 1..Len(prefix) : s[i] = prefix[i]

\* s[start:]
py_slice_from(s, start) ==
    LET a == IF start < 0 THEN Max(start + Len(s), 0) ELSE Min(start, Len(s))
    IN  SubSeq(s, a + 1, Len(s))

\* s[::-1]
py_reverse(s) == [i \in 1..Len(s) |-> s[Len(s) + 1 - i]]

\* Python's normalisation of a slice bound for a negative step.
py_bound_rev(b, n) ==
    IF b < 0 THEN Max(b + n, -1) ELSE Min(b, n - 1)

\* s[start:stop:-1]: the characters at indices start, start-1, ..., stop+1
py_slice_rev(s, start, stop) ==
    LET a == py_bound_rev(start, Len(s))
        b == py_bound_rev(stop, Len(s))
    IN  [k \in 1..Max(a - b, 0) |-> s[(a - (k - 1)) + 1]]

\* s[start::-1]: the characters at indices start, start-1, ..., 0
py_slice_rev_to_start(s, start) ==
    LET a == py_bound_rev(start, Len(s))
    IN  [k \in 1..(a + 1) |-> s[(a - (k - 1)) + 1]]

\* str.zfill(width) of a string without sign
py_zfill(s, width) ==
    [i \in 1..Max(width - Len(s), 0) |-> "0"] \o s

\* the value int() gives one digit character
digit_value(c) ==
    CASE c = "0" -> 0 [] c = "1" -> 1 [] c = "2" -> 2 [] c = "3" -> 3
      [] c = "4" -> 4 [] c = "5" -> 5 [] c = "6" -> 6 [] c = "7" -> 7
      [] c = "8" -> 8 [] c = "9" -> 9 [] c = "a" -> 10 [] c = "b" -> 11
      [] c = "c" -> 12 [] c = "d" -> 13 [] c = "e" -> 14 [] c = "f" -> 15
      [] c = "A" -> 10 [] c = "B" -> 11 [] c = "C" -> 12 [] c = "D" -> 13
      [] c = "E" -> 14 [] c = "F" -> 15

\* a binary numeral without its leading zeros
strip_zeros(bits) ==
    IF \A i \in 1..Len(bits) : bits[i] = "0"
    THEN <<>>
    ELSE LET first == CHOOSE i \in 1..Len(bits) :
                          /\ bits[i] = "1"
                          /\ \A j \in 1..(i - 1) : bits[j] = "0"
         IN  SubSeq(bits, first, Len(bits))

\* the `shift` binary digits of a digit value v < 2^shift, most significant first
digit_bits(v, shift) ==
    [k \in 1..shift |-> IF (v \div (2 ^ (shift - k))) % 2 = 1 THEN "1" ELSE "0"]

\* int(s, 2^shift) for a non-empty s of valid digits: every digit contributes
\* its `shift` binary digits, and an int has no leading zeros
py_int(s, shift) ==
    strip_zeros([k \in 1..(Len(s) * shift) |->
                    digit_bits(digit_value(s[((k - 1) \div shift) + 1]), shift)[((k - 1) % shift) + 1]])

\* the number a small Python int is
RECURSIVE int_to_nat(_)
int_to_nat(n) ==
    IF n = <<>> THEN 0
    ELSE 2 * int_to_nat(SubSeq(n, 1, Len(n) - 1)) + (IF n[Len(n)] = "1" THEN 1 ELSE 0)

\* bin(n)[2:]
py_bin(n) == IF n = <<>> THEN <<"0">> ELSE n

---------------------------------------------------------------------------
(* The format catalog                                                      *)

FPFormat(width, exponent, mantissa) ==
    [width |-> width, exponent |-> exponent, mantissa |-> mantissa]

FP_CONFIG ==
    [name \in {"FP64", "FP32", "TF32", "FP16", "BF16", "FP8_E4M3", "FP8_E5M2"} |->
        CASE name = "FP64"     -> FPFormat(64, <<62, 52>>, <<51, 0>>)
          [] name = "FP32"     -> FPFormat(32, <<30, 23>>, <<22, 0>>)
          [] name = "TF32"     -> FPFormat(32, <<30, 23>>, <<22, 13>>)
          [] name = "FP16"     -> FPFormat(16, <<14, 10>>, <<9, 0>>)
          [] name = "BF16"     -> FPFormat(16, <<14, 7>>, <<6, 0>>)
          [] name = "FP8_E4M3" -> FPFormat(8, <<6, 3>>, <<2, 0>>)
          [] name = "FP8_E5M2" -> FPFormat(8, <<6, 2>>, <<1, 0>>)]

FormatNames == DOMAIN FP_CONFIG

---------------------------------------------------------------------------
(* The field extractor                                                     *)

HexDigits == {"0", "1", "2", "3", "4", "5", "6", "7", "8", "9",
              "a", "b", "c", "d", "e", "f"}

BinDigits == {"0", "1"}

hex_str_check(hex_str) ==
    \A i \in 1..Len(hex_str) : py_lower(hex_str)[i] \in HexDigits

\* bin_str_check as str.isdigit() would decide it
bin_str_check_isdigit(bin_str) ==
    \A i \in 1..Len(bin_str) :
        bin_str[i] \in {"0", "1", "2", "3", "4", "5", "6", "7", "8", "9"}

bin_str_check(bin_str) ==
    \A i \in 1..Len(bin_str) : bin_str[i] \in BinDigits

\* int(hex_str, 16) raises ValueError on the empty string
int_raises(s) == s = <<>>

\* hex_str_to_bin without the clip to the low `width` characters
hex_str_to_bin_unclipped(hex_str, width) ==
    py_zfill(py_bin(py_int(hex_str, 4)), width)

hex_str_to_bin(hex_str, width) ==
    LET bin_str == py_zfill(py_bin(py_int(hex_str, 4)), width)
        bin_len == Len(bin_str)
    IN  py_slice_from(bin_str, bin_len - width)

\* a value or the exception raised in its place
Returned(value) == [raised |-> NoException, value |-> value]

Failed(exc) == [raised |-> exc, value |-> None]

extract_exponent(bin_str, fp_fmt) ==
    LET msb_idx == fp_fmt.exponent[1]
        lsb_idx == fp_fmt.exponent[2] - 1
    IN  IF ~(fp_fmt.exponent[2] > 1)
        THEN Failed(Raise("AssertionError", "Invalid Exponent Index", <<>>))
        ELSE Returned(py_slice_rev(bin_str, msb_idx, lsb_idx))

\* extract_mantissa without the branch for a field that ends at bit 0
extract_mantissa_one_slice(bin_str, fp_fmt) ==
    LET msb_idx == fp_fmt.mantissa[1]
        lsb_idx == fp_fmt.mantissa[2] - 1
    IN  py_slice_rev(bin_str, msb_idx, lsb_idx)

extract_mantissa(bin_str, fp_fmt) ==
    LET msb_idx == fp_fmt.mantissa[1]
    IN  IF fp_fmt.mantissa[2] = 0
        THEN py_slice_rev_to_start(bin_str, msb_idx)
        ELSE LET lsb_idx == fp_fmt.mantissa[2] - 1
             IN  py_slice_rev(bin_str, msb_idx, lsb_idx)

extract_sign(bin_str, fp_fmt) == <<bin_str[(fp_fmt.width - 1) + 1]>>

Fp(sign, exponent, mantissa) ==
    [sign |-> sign, exponent |-> exponent, mantissa |-> mantissa]

\* the Fp(...) both extractors return: its arguments are evaluated in order
\* and extract_exponent's assertion propagates
build_fp(bin_str, fp_fmt) ==
    LET e == extract_exponent(bin_str, fp_fmt)
    IN  IF e.raised # NoException
        THEN Failed(e.raised)
        ELSE Returned(Fp(extract_sign(bin_str, fp_fmt),
                         e.value,
                         extract_mantissa(bin_str, fp_fmt)))

hex_extractor(hex_str, fp_fmt) ==
    IF ~hex_str_check(hex_str)
    THEN Failed(Raise("ValueError", "Invalid Hex Value: ", hex_str))
    ELSE IF int_raises(hex_str)
    THEN Failed(Raise("ValueError", "invalid literal for int() with base 16: ", hex_str))
    ELSE LET bin_str == py_reverse(hex_str_to_bin(hex_str, fp_fmt.width))
         IN  IF Len(bin_str) # fp_fmt.width
             THEN Failed(Raise("AssertionError", "Invalid binary string length", <<>>))
             ELSE build_fp(bin_str, fp_fmt)

bin_extractor(bin_str, fp_fmt) ==
    IF ~bin_str_check(bin_str)
    THEN Failed(Raise("ValueError", "Invalid Binary Value: ", bin_str))
    ELSE LET padded  == py_zfill(bin_str, fp_fmt.width)
             bin_len == Len(padded)
             tmp_str == py_slice_from(padded, bin_len - fp_fmt.width)
             fp_str  == py_reverse(tmp_str)
         IN  IF Len(fp_str) # fp_fmt.width
             THEN Failed(Raise("AssertionError", "Invalid binary string length", <<>>))
             ELSE build_fp(fp_str, fp_fmt)

---------------------------------------------------------------------------
(* class FPExtractor                                                       *)

\* FPExtractor.__init__
FPExtractor(fmt_name, fp_fmt) ==
    [fmt_name |-> fmt_name, fp_fmt |-> fp_fmt,
     sign |-> None, exponent |-> None, mantissa |-> None]

\* a method's exception or None, and self as the call leaves it
Outcome(raised, self) == [raised |-> raised, value |-> self]

\* extract_hex with the fields cleared before the digits are parsed
extract_hex_clearing(self, hex_str) ==
    LET extract_dict == hex_extractor(hex_str, self.fp_fmt)
    IN  IF extract_dict.raised # NoException
        THEN Outcome(extract_dict.raised,
                     [self EXCEPT !.sign = None, !.exponent = None, !.mantissa = None])
        ELSE Outcome(NoException,
                     [self EXCEPT !.sign     = extract_dict.value.sign,
                                  !.exponent = extract_dict.value.exponent,
                                  !.mantissa = extract_dict.value.mantissa])

\* the three fields are assigned only when hex_extractor returned
extract_hex(self, hex_str) ==
    LET extract_dict == hex_extractor(hex_str, self.fp_fmt)
    IN  IF extract_dict.raised # NoException
        THEN Outcome(extract_dict.raised, self)
        ELSE Outcome(NoException,
                     [self EXCEPT !.sign     = extract_dict.value.sign,
                                  !.exponent = extract_dict.value.exponent,
                                  !.mantissa = extract_dict.value.mantissa])

extract_bin(self, bin_str) ==
    LET extract_dict == bin_extractor(bin_str, self.fp_fmt)
    IN  IF extract_dict.raised # NoException
        THEN Outcome(extract_dict.raised, self)
        ELSE Outcome(NoException,
                     [self EXCEPT !.sign     = extract_dict.value.sign,
                                  !.exponent = extract_dict.value.exponent,
                                  !.mantissa = extract_dict.value.mantissa])

extract_fp_str(self, fp_str) ==
    LET lowered == py_lower(fp_str)
    IN  IF py_startswith(lowered, <<"0", "x">>)
        THEN extract_hex(self, py_slice_from(lowered, 2))
        ELSE IF py_startswith(lowered, <<"0", "b">>)
        THEN extract_bin(self, py_slice_from(lowered, 2))
        ELSE Outcome(Raise("ValueError", "Input must start with 0x or 0b: ", lowered), self)

\* int(text, 2) of a field: TypeError on None, ValueError on the empty string
field_int_raises(text) ==
    IF text = None THEN Raise("TypeError", "int() can't convert non-string with explicit base", <<>>)
    ELSE IF int_raises(text) THEN Raise("ValueError", "invalid literal for int() with base 2: ", text)
    ELSE NoException

get_exponent_value(self) == int_to_nat(py_int(self.exponent, 1))

get_mantissa_value(self) == py_int(self.mantissa, 1)

\* is_positive with the sign bit read the wrong way round
is_positive_inverted(self) == self.sign = <<"1">>

is_positive(self) == self.sign = <<"0">>

\* the Python int of a small number, for comparison with get_mantissa_value
RECURSIVE nat_to_int(_)
nat_to_int(k) ==
    IF k = 0 THEN <<>>
    ELSE nat_to_int(k \div 2) \o <<IF k % 2 = 1 THEN "1" ELSE "0">>

Literal(text) == [kind |-> text]

\* f"{kind}: sign:{sign}, exponent:{exponent}, mantissa: {lead}.{mantissa}"
Rendered(kind, sign, exponent, lead, mantissa) ==
    [kind |-> kind, sign |-> sign, exponent |-> exponent,
     lead |-> lead, mantissa |-> mantissa]

\* get_e4m3_expression that reserves the whole top exponent, as IEEE formats do
get_e4m3_expression_ieee(self, exponent_value, mantissa_value, sign) ==
    IF exponent_value = 8
    THEN IF mantissa_value = nat_to_int(0)
         THEN (IF sign = <<"0">> THEN Literal("+Inf") ELSE Literal("-Inf"))
         ELSE Literal("NaN")
    ELSE IF exponent_value = -7
    THEN IF mantissa_value = nat_to_int(0)
         THEN (IF sign = <<"1">> THEN Literal("+Zero") ELSE Literal("-Zero"))
         ELSE Rendered("Subnormal", sign, exponent_value + 1, "0", self.mantissa)
    ELSE Rendered("Normal", sign, exponent_value, "1", self.mantissa)

get_e4m3_expression(self, exponent_value, mantissa_value, sign) ==
    IF exponent_value = 8 /\ mantissa_value = nat_to_int(7)
    THEN Literal("NaN")
    ELSE IF exponent_value = -7
    THEN IF mantissa_value = nat_to_int(0)
         THEN (IF sign = <<"1">> THEN Literal("+Zero") ELSE Literal("-Zero"))
         ELSE Rendered("Subnormal", sign, exponent_value + 1, "0", self.mantissa)
    ELSE Rendered("Normal", sign, exponent_value, "1", self.mantissa)

\* get_fp_expression that reports a subnormal with the exponent of E = 0
get_fp_expression_raw_subnormal(self) ==
    IF field_int_raises(self.exponent) # NoException
    THEN [raised |-> field_int_raises(self.exponent), value |-> Literal("None")]
    ELSE IF field_int_raises(self.mantissa) # NoException
    THEN [raised |-> field_int_raises(self.mantissa), value |-> Literal("None")]
    ELSE
    LET exponent_width     == self.fp_fmt.exponent[1] - self.fp_fmt.exponent[2] + 1
        exponent_bias      == 2 ^ (exponent_width - 1) - 1
        exponent_original  == get_exponent_value(self)
        exponent_effective == exponent_original - exponent_bias
        mantissa_value     == get_mantissa_value(self)
    IN  IF self.fmt_name = "FP8_E4M3"
        THEN Returned(get_e4m3_expression(self, exponent_effective, mantissa_value, self.sign))
        ELSE IF exponent_effective = exponent_bias + 1
        THEN IF mantissa_value = nat_to_int(0)
             THEN Returned(IF is_positive(self) THEN Literal("+Inf") ELSE Literal("-Inf"))
             ELSE Returned(Literal("NaN"))
        ELSE IF exponent_original = 0
        THEN IF mantissa_value = nat_to_int(0)
             THEN Returned(IF is_positive(self) THEN Literal("+Zero") ELSE Literal("-Zero"))
             ELSE Returned(Rendered("Subnormal", self.sign, exponent_effective, "0", self.mantissa))
        ELSE Returned(Rendered("Normal", self.sign, exponent_effective, "1", self.mantissa))

get_fp_expression(self) ==
    IF field_int_raises(self.exponent) # NoException
    THEN [raised |-> field_int_raises(self.exponent), value |-> Literal("None")]
    ELSE IF field_int_raises(self.mantissa) # NoException
    THEN [raised |-> field_int_raises(self.mantissa), value |-> Literal("None")]
    ELSE
    LET exponent_width     == self.fp_fmt.exponent[1] - self.fp_fmt.exponent[2] + 1
        exponent_bias      == 2 ^ (exponent_width - 1) - 1
        exponent_original  == get_exponent_value(self)
        exponent_effective == exponent_original - exponent_bias
        mantissa_value     == get_mantissa_value(self)
    IN  IF self.fmt_name = "FP8_E4M3"
        THEN Returned(get_e4m3_expression(self, exponent_effective, mantissa_value, self.sign))
        ELSE IF exponent_effective = exponent_bias + 1
        THEN IF mantissa_value = nat_to_int(0)
             THEN Returned(IF is_positive(self) THEN Literal("+Inf") ELSE Literal("-Inf"))
             ELSE Returned(Literal("NaN"))
        ELSE IF exponent_original = 0
        THEN IF mantissa_value = nat_to_int(0)
             THEN Returned(IF is_positive(self) THEN Literal("+Zero") ELSE Literal("-Zero"))
             ELSE Returned(Rendered("Subnormal", self.sign, exponent_effective + 1, "0", self.mantissa))
        ELSE Returned(Rendered("Normal", self.sign, exponent_effective, "1", self.mantissa))

---------------------------------------------------------------------------
(* The inputs the calls are made with                                      *)

\* longest run of the minority digit at either end of a sampled field
MaxRun == 1

\* most digits an over-long digit string has beyond its format's width
MaxExtra == 1

\* most extract_fp_str calls of one session
MaxCalls == 3

Rep(c, n) == [i \in 1..n |-> c]

\* bit strings of length n: one digit throughout, or a run of at most MaxRun
\* of the other digit at one end
Runs(n) ==
    { Rep(c[1], i) \o Rep(c[2], n - i) : c \in {<<"0", "1">>, <<"1", "0">>}, i \in 0..Min(MaxRun, n) }
    \cup
    { Rep(c[2], n - i) \o Rep(c[1], i) : c \in {<<"0", "1">>, <<"1", "0">>}, i \in 0..Min(MaxRun, n) }

AllBits(n) == { Rep("0", 0) \o f : f \in [1..n -> BinDigits] }

\* the formats whose every bit pattern is tried
Exhaustive == {"FP8_E4M3", "FP8_E5M2"}

\* bit patterns of a format, written most significant bit first
Patterns(name) ==
    LET fmt == FP_CONFIG[name]
        ew  == fmt.exponent[1] - fmt.exponent[2] + 1
        mw  == fmt.mantissa[1] - fmt.mantissa[2] + 1
        gw  == fmt.mantissa[2]
    IN  IF name \in Exhaustive
        THEN AllBits(fmt.width)
        ELSE { <<s>> \o e \o m \o g :
                 s \in BinDigits, e \in Runs(ew), m \in Runs(mw), g \in Runs(gw) }

HexChar(v) ==
    <<"0", "1", "2", "3", "4", "5", "6", "7", "8", "9",
      "a", "b", "c", "d", "e", "f">>[v + 1]

upper_char(c) ==
    CASE c = "a" -> "A" [] c = "b" -> "B" [] c = "c" -> "C" [] c = "d" -> "D"
      [] c = "e" -> "E" [] c = "f" -> "F" [] c = "g" -> "G" [] c = "x" -> "X"
      [] c = "z" -> "Z" [] OTHER -> c

Upper(s) == [i \in 1..Len(s) |-> upper_char(s[i])]

\* the hexadecimal numeral of a bit string whose length is a multiple of 4
ToHex(bits) ==
    [k \in 1..(Len(bits) \div 4) |->
        HexChar(  (IF bits[4 * k - 3] = "1" THEN 8 ELSE 0)
                + (IF bits[4 * k - 2] = "1" THEN 4 ELSE 0)
                + (IF bits[4 * k - 1] = "1" THEN 2 ELSE 0)
                + (IF bits[4 * k]     = "1" THEN 1 ELSE 0))]

\* a numeral without its leading "0" digits (possibly empty)
Shortened(digits) ==
    IF \A i \in 1..Len(digits) : digits[i] = "0"
    THEN <<>>
    ELSE SubSeq(digits,
                CHOOSE i \in 1..Len(digits) :
                    digits[i] # "0" /\ \A j \in 1..(i - 1) : digits[j] = "0",
                Len(digits))

\* non-empty strings over `alphabet` of at most MaxExtra digits
RECURSIVE Extras(_, _)
Extras(alphabet, n) ==
    IF n = 0 THEN {}
    ELSE { <<c>> : c \in alphabet }
         \cup { <<c>> \o x : c \in alphabet, x \in Extras(alphabet, n - 1) }

\* digit strings that denote the pattern, exactly, shortened, or behind extra
\* high-order digits
DigitStrings(digits, alphabet) ==
    {digits, Shortened(digits)}
    \cup { x \o digits : x \in Extras(alphabet, MaxExtra) }

WellFormedInputs(name) ==
    UNION { { <<"0", "b">> \o d : d \in DigitStrings(p, {"0", "1"}) }
            \cup { <<"0", "x">> \o d : d \in DigitStrings(ToHex(p), {"1", "f"}) }
            \cup { <<"0", "B">> \o p, <<"0", "X">> \o Upper(ToHex(p)), <<"0", "x">> \o Upper(ToHex(p)) }
          : p \in Patterns(name) }

\* inputs without a recognised prefix
UnprefixedInputs ==
    { <<>>, <<"0">>, <<"x">>, <<"b">>, <<"1", "0", "1", "0">>, <<"0", "z", "1", "0">>,
      <<"0", "Z", "1", "0">>, <<"x", "0", "1">>, <<"b", "0", "1">>, <<"0", "0", "x", "1">>,
      <<" ", "0", "x", "1">>, <<"f", "f">>, <<"0", "_", "x", "1">> }

\* inputs with a recognised prefix and a digit the base does not have
BadDigitInputs ==
    { <<"0", "x", "g", "1">>, <<"0", "x", "1", "g">>, <<"0", "X", "G">>, <<"0", "x", "1", "_", "1">>,
      <<"0", "x", "1", " ">>, <<"0", "x", "0", "x", "1">>, <<"0", "x", "Z">>,
      <<"0", "b", "2">>, <<"0", "b", "1", "0", "2">>, <<"0", "b", "1", "a">>, <<"0", "B", "F">>,
      <<"0", "b", "0", "b", "1">>, <<"0", "b", "1", "_", "1">>, <<"0", "b", " ", "1">> }

\* inputs that are a prefix and nothing else
EmptyDigitInputs == { <<"0", "x">>, <<"0", "X">>, <<"0", "b">>, <<"0", "B">> }

Inputs(name) ==
    WellFormedInputs(name) \cup EmptyDigitInputs \cup UnprefixedInputs \cup BadDigitInputs

\* the extractors a session calls; the other four stay as constructed
SessionNames == {"FP64", "TF32", "FP8_E4M3"}

\* the inputs of a session: two that decode, to different fields, and three that raise
SessionInputs(name) ==
    { <<"0", "x", "7", "e">>, <<"0", "b">> \o Rep("1", FP_CONFIG[name].width + 1),
      <<"0", "x", "g", "1">>, <<"0", "z", "1", "0">>, <<"0", "x">> }

---------------------------------------------------------------------------
(* The state machine                                                       *)

NoCall == [self |-> "", fp_str |-> <<>>, raised |-> NoException]

NoResult == [self |-> "", raised |-> NoException, value |-> Literal("None")]

\* GUI.__init__: one fresh FPExtractor per catalog entry
Init ==
    /\ extractors = [name \in FormatNames |-> FPExtractor(name, FP_CONFIG[name])]
    /\ call = NoCall
    /\ result = NoResult
    /\ ncalls = 0

\* extractors[name].extract_fp_str(fp_str)
ExtractFpStr(name, fp_str) ==
    LET r == extract_fp_str(extractors[name], fp_str)
    IN  /\ extractors' = [extractors EXCEPT ![name] = r.value]
        /\ call' = [self |-> name, fp_str |-> fp_str, raised |-> r.raised]
        /\ result' = NoResult
        /\ ncalls' = ncalls + 1

\* extractors[name].get_fp_expression()
GetFpExpression(name) ==
    LET r == get_fp_expression(extractors[name])
    IN  /\ result' = [self |-> name, raised |-> r.raised, value |-> r.value]
        /\ UNCHANGED <<extractors, call, ncalls>>

\* one decode request on the fresh extractors
Decode ==
    /\ ncalls = 0
    /\ \E name \in FormatNames : \E fp_str \in Inputs(name) : ExtractFpStr(name, fp_str)

\* the classification of what was decoded, asked for when the decode returned
Classify ==
    /\ call.self # ""
    /\ call.raised = NoException
    /\ result.self = ""
    /\ GetFpExpression(call.self)

Next == Decode \/ Classify

Spec == Init /\ [][Next]_vars

\* a session: extractors are asked to decode or to classify, in any order
SessionDecode ==
    /\ ncalls < MaxCalls
    /\ \E name \in SessionNames : \E fp_str \in SessionInputs(name) : ExtractFpStr(name, fp_str)

SessionClassify == \E name \in SessionNames : GetFpExpression(name)

SessionNext == SessionDecode \/ SessionClassify

SessionSpec == Init /\ [][SessionNext]_vars

---------------------------------------------------------------------------
(* The vocabulary of the properties: what an input denotes, read off the   *)
(* input text itself                                                       *)

RefPrefix(s) ==
    IF Len(s) >= 2 /\ s[1] = "0" /\ s[2] \in {"x", "X"} THEN "hex"
    ELSE IF Len(s) >= 2 /\ s[1] = "0" /\ s[2] \in {"b", "B"} THEN "bin"
    ELSE "none"

RefDigits(s) == SubSeq(s, 3, Len(s))

RefLowerHex == <<"0", "1", "2", "3", "4", "5", "6", "7", "8", "9", "a", "b", "c", "d", "e", "f">>

RefUpperHex == <<"0", "1", "2", "3", "4", "5", "6", "7", "8", "9", "A", "B", "C", "D", "E", "F">>

RefIsDigit(c, base) ==
    IF base = "hex" THEN \E v \in 1..16 : c \in {RefLowerHex[v], RefUpperHex[v]}
    ELSE c \in {"0", "1"}

RefValid(s) ==
    /\ RefPrefix(s) # "none"
    /\ \A i \in 3..Len(s) : RefIsDigit(s[i], RefPrefix(s))

RefHexValue(c) == (CHOOSE v \in 1..16 : c \in {RefLowerHex[v], RefUpperHex[v]}) - 1

\* bit i (0 = least significant) of the number the valid input s writes
RefBit(s, i) ==
    LET d == RefDigits(s)
    IN  IF RefPrefix(s) = "bin"
        THEN (IF i < Len(d) THEN d[Len(d) - i] ELSE "0")
        ELSE (IF i \div 4 < Len(d)
              THEN (IF (RefHexValue(d[Len(d) - (i \div 4)]) \div (2 ^ (i % 4))) % 2 = 1
                    THEN "1" ELSE "0")
              ELSE "0")

\* bits msb down to lsb of that number, most significant first
RefField(s, msb, lsb) == [k \in 1..(msb - lsb + 1) |-> RefBit(s, msb - (k - 1))]

RefSign(s, fmt) == <<RefBit(s, fmt.width - 1)>>

RefExponent(s, fmt) == RefField(s, fmt.exponent[1], fmt.exponent[2])

RefMantissa(s, fmt) == RefField(s, fmt.mantissa[1], fmt.mantissa[2])

RefPattern(s, fmt) == RefField(s, fmt.width - 1, 0)

AllZero(bits) == \A i \in 1..Len(bits) : bits[i] = "0"

AllOnes(bits) == \A i \in 1..Len(bits) : bits[i] = "1"

\* the unsigned value of a field of at most 11 bits
RECURSIVE RefNat(_)
RefNat(bits) ==
    IF bits = <<>> THEN 0
    ELSE 2 * RefNat(SubSeq(bits, 1, Len(bits) - 1)) + (IF bits[Len(bits)] = "1" THEN 1 ELSE 0)

RefExponentWidth(fmt) == fmt.exponent[1] - fmt.exponent[2] + 1

RefBias(fmt) == 2 ^ (RefExponentWidth(fmt) - 1) - 1

\* an extract_fp_str call has been made / has returned / has been classified
CallMade == call.self # ""

Decoded == CallMade /\ call.raised = NoException

Classified == Decoded /\ result.self = call.self /\ result.raised = NoException

\* the stored fields of an extractor
Stored(x) == Fp(x.sign, x.exponent, x.mantissa)

RefFp(s, fmt) == Fp(RefSign(s, fmt), RefExponent(s, fmt), RefMantissa(s, fmt))

---------------------------------------------------------------------------
(* The properties                                                          *)

\* C1: for every format, once the all-zero pattern is decoded the expression
\* is "+Zero", and once the pattern with only the sign bit set is decoded it
\* is "-Zero".
C1_SignedZero ==
    Classified =>
        LET fmt == FP_CONFIG[call.self]
            p   == RefPattern(call.fp_str, fmt)
        IN  /\ AllZero(p) => result.value = Literal("+Zero")
            /\ (p[1] = "1" /\ AllZero(Tail(p))) => result.value = Literal("-Zero")

\* The same for every format but FP8_E4M3, whose branch swaps the two signs.
C1_SignedZeroOtherFormats ==
    (Classified /\ call.self # "FP8_E4M3") => C1_SignedZero

\* For FP8_E4M3 the two zeros are reported with the signs exchanged.
C1_SignedZeroE4M3Swapped ==
    (Classified /\ call.self = "FP8_E4M3") =>
        LET p == RefPattern(call.fp_str, FP_CONFIG[call.self])
        IN  /\ AllZero(p) => result.value = Literal("-Zero")
            /\ (p[1] = "1" /\ AllZero(Tail(p))) => result.value = Literal("+Zero")

\* C2: for FP8_E4M3 the expression is never "+Inf" or "-Inf"; it is "NaN"
\* exactly when the exponent bits are 1111 and the mantissa bits 111; every
\* other pattern with exponent bits 1111 is Normal with exponent 8.
C2_E4M3NoInfinity ==
    (Classified /\ call.self = "FP8_E4M3") =>
        LET fmt == FP_CONFIG[call.self]
            e   == RefExponent(call.fp_str, fmt)
            m   == RefMantissa(call.fp_str, fmt)
        IN  /\ result.value.kind \notin {"+Inf", "-Inf"}
            /\ result.value = Literal("NaN") <=> (e = <<"1", "1", "1", "1">> /\ m = <<"1", "1", "1">>)
            /\ (e = <<"1", "1", "1", "1">> /\ m # <<"1", "1", "1">>) =>
                   /\ result.value.kind = "Normal"
                   /\ result.value.exponent = 8

C2_Witness ==
    /\ Classified
    /\ call.self = "FP8_E4M3"
    /\ call.fp_str = <<"0", "x", "7", "e">>
    /\ result.value.kind = "Normal"

\* C3: for every format an input that is the prefix alone decodes without
\* error as zero: sign "0", exponent bits all 0, mantissa bits all 0.
C3_EmptyDigitsDecodeAsZero ==
    (CallMade /\ call.fp_str \in EmptyDigitInputs) =>
        LET x == extractors[call.self]
        IN  /\ call.raised = NoException
            /\ x.sign = <<"0">>
            /\ x.exponent = Rep("0", RefExponentWidth(x.fp_fmt))
            /\ x.mantissa = Rep("0", x.fp_fmt.mantissa[1] - x.fp_fmt.mantissa[2] + 1)

\* The binary prefix alone does decode as zero.
C3_EmptyBinaryDecodesAsZero ==
    (CallMade /\ call.fp_str \in {<<"0", "b">>, <<"0", "B">>}) => C3_EmptyDigitsDecodeAsZero

\* The hexadecimal prefix alone raises int()'s ValueError and stores nothing.
C3_EmptyHexRaises ==
    (CallMade /\ call.fp_str \in {<<"0", "x">>, <<"0", "X">>}) =>
        /\ call.raised = Raise("ValueError", "invalid literal for int() with base 16: ", <<>>)
        /\ Stored(extractors[call.self]) = Fp(None, None, None)

\* C4: for every format but FP8_E4M3 and every pattern whose exponent field
\* is all ones (E - bias = bias + 1) the expression is "+Inf" for a zero
\* mantissa and sign 0, "-Inf" for a zero mantissa and sign 1, and "NaN" for
\* a nonzero mantissa; for no other pattern is it "+Inf", "-Inf" or "NaN".
C4_MaxExponent ==
    (Classified /\ call.self # "FP8_E4M3") =>
        LET fmt == FP_CONFIG[call.self]
            s   == RefSign(call.fp_str, fmt)
            e   == RefExponent(call.fp_str, fmt)
            m   == RefMantissa(call.fp_str, fmt)
        IN  /\ AllOnes(e) <=> (RefNat(e) - RefBias(fmt) = RefBias(fmt) + 1)
            /\ (AllOnes(e) /\ AllZero(m) /\ s = <<"0">>) => result.value = Literal("+Inf")
            /\ (AllOnes(e) /\ AllZero(m) /\ s = <<"1">>) => result.value = Literal("-Inf")
            /\ (AllOnes(e) /\ ~AllZero(m)) => result.value = Literal("NaN")
            /\ ~AllOnes(e) => result.value.kind \notin {"+Inf", "-Inf", "NaN"}

C4_Witness ==
    /\ Classified
    /\ call.self = "FP32"
    /\ call.fp_str = <<"0", "x", "f", "f", "8", "0", "0", "0", "0", "0">>
    /\ result.value = Literal("-Inf")

\* C5: for every format of width w and every valid digit string of any
\* length, extract_fp_str raises nothing and stores the fields of the w-bit
\* pattern of n mod 2^w: the low-order w bits, zero-extended on the left.
C5_Truncation ==
    (CallMade /\ RefValid(call.fp_str)) =>
        /\ call.raised = NoException
        /\ Stored(extractors[call.self]) = RefFp(call.fp_str, FP_CONFIG[call.self])

\* The same for every digit string of at least one digit.
C5_TruncationOfDigits ==
    (CallMade /\ RefValid(call.fp_str) /\ RefDigits(call.fp_str) # <<>>) => C5_Truncation

\* C6: for every format F, decoding the F.width-character binary string of n
\* stores sign = bit F.width-1, exponent = bits exponent.msb..exponent.lsb and
\* mantissa = bits mantissa.msb..mantissa.lsb of n, most significant first;
\* the three concatenated are the written pattern without its low
\* mantissa.lsb bits (all of it, but for TF32 its top 19 bits).
C6_RoundTrip ==
    (CallMade /\ RefPrefix(call.fp_str) = "bin" /\ RefValid(call.fp_str)
              /\ Len(RefDigits(call.fp_str)) = FP_CONFIG[call.self].width) =>
        LET fmt == FP_CONFIG[call.self]
            x   == extractors[call.self]
            n   == RefDigits(call.fp_str)
        IN  /\ call.raised = NoException
            /\ x.sign = <<n[fmt.width - (fmt.width - 1)]>>
            /\ Len(x.exponent) = fmt.exponent[1] - fmt.exponent[2] + 1
            /\ \A k \in 1..Len(x.exponent) : x.exponent[k] = n[fmt.width - (fmt.exponent[1] - (k - 1))]
            /\ Len(x.mantissa) = fmt.mantissa[1] - fmt.mantissa[2] + 1
            /\ \A k \in 1..Len(x.mantissa) : x.mantissa[k] = n[fmt.width - (fmt.mantissa[1] - (k - 1))]
            /\ x.sign \o x.exponent \o x.mantissa = SubSeq(n, 1, fmt.width - fmt.mantissa[2])
            /\ (call.self = "TF32") = (Len(x.sign \o x.exponent \o x.mantissa) # fmt.width)
            /\ (call.self = "TF32") => Len(x.sign \o x.exponent \o x.mantissa) = 19

C6_Witness ==
    /\ Decoded
    /\ call.self = "TF32"
    /\ RefPrefix(call.fp_str) = "bin"
    /\ Len(RefDigits(call.fp_str)) = 32
    /\ AllOnes(SubSeq(RefDigits(call.fp_str), 20, 32))
    /\ AllZero(extractors["TF32"].mantissa)

\* C7: extract_fp_str raises the missing-prefix error for every input that
\* does not begin with "0x" or "0b" in either case; it raises the
\* invalid-digit error, echoing the digit string (in lower case), for every
\* input with a prefix and a character outside the base's digits; and for a
\* prefix followed by valid digits only it raises neither.
C7_InputErrors ==
    CallMade =>
        LET s == call.fp_str
            d == RefDigits(s)
        IN  /\ RefPrefix(s) = "none" =>
                   /\ call.raised.type = "ValueError"
                   /\ call.raised.message = "Input must start with 0x or 0b: "
            /\ (RefPrefix(s) # "none" /\ ~RefValid(s)) =>
                   /\ call.raised.type = "ValueError"
                   /\ call.raised.message =
                          (IF RefPrefix(s) = "hex" THEN "Invalid Hex Value: " ELSE "Invalid Binary Value: ")
                   /\ Len(call.raised.echo) = Len(d)
                   /\ \A i \in 1..Len(d) : d[i] \in {call.raised.echo[i], upper_char(call.raised.echo[i])}
            /\ RefValid(s) =>
                   call.raised.message \notin {"Input must start with 0x or 0b: ",
                                               "Invalid Hex Value: ", "Invalid Binary Value: "}

C7_Witness ==
    /\ CallMade
    /\ call.fp_str = <<"0", "X", "G">>
    /\ call.raised = Raise("ValueError", "Invalid Hex Value: ", <<"g">>)

\* C8: a call of extract_fp_str that raises leaves the extractor's sign,
\* exponent and mantissa as they were; a call that returns sets them to the
\* fields its own input denotes in its format, whatever was stored before; no
\* call changes another extractor or an extractor's catalog entry, and
\* get_fp_expression changes no extractor.
C8_Frame ==
    [][ /\ \A name \in FormatNames :
              /\ extractors'[name].fmt_name = name
              /\ extractors'[name].fp_fmt = FP_CONFIG[name]
        /\ (ncalls' = ncalls) => extractors' = extractors
        /\ (ncalls' # ncalls) =>
              /\ \A name \in FormatNames \ {call'.self} : extractors'[name] = extractors[name]
              /\ (call'.raised # NoException) => extractors' = extractors
              /\ (call'.raised = NoException) =>
                     Stored(extractors'[call'.self]) = RefFp(call'.fp_str, FP_CONFIG[call'.self])
      ]_vars

\* a call has raised on an extractor that holds the fields of an earlier call
C8_Witness ==
    /\ ncalls >= 2
    /\ call.raised.message = "Invalid Hex Value: "
    /\ extractors[call.self].sign # None
    /\ \E other \in FormatNames \ {call.self} : extractors[other].sign # None

\* C9: after a successful decode get_fp_expression raises nothing and its
\* result is one of +Zero, -Zero, Subnormal, Normal, +Inf, -Inf, NaN; the
\* assertions of extract_exponent, hex_extractor and bin_extractor never fail.
C9_Total ==
    /\ call.raised.type # "AssertionError"
    /\ (Decoded /\ result.self = call.self) =>
           /\ result.raised = NoException
           /\ result.value.kind \in {"+Zero", "-Zero", "Subnormal", "Normal", "+Inf", "-Inf", "NaN"}
           /\ result.value.kind \in {"Subnormal", "Normal"} <=> DOMAIN result.value # {"kind"}

C9_Witness ==
    /\ Classified
    /\ call.self = "FP64"
    /\ RefPrefix(call.fp_str) = "hex"
    /\ Len(RefDigits(call.fp_str)) > 16
    /\ result.value.kind = "Subnormal"

\* C10: with E the value of the exponent field and bias = 2^(width of the
\* field - 1) - 1, a pattern with E = 0 and a nonzero mantissa is Subnormal
\* with exponent 1 - bias and mantissa "0.<mantissa bits>", a pattern with
\* 0 < E < the field's maximum is Normal with exponent E - bias and mantissa
\* "1.<mantissa bits>"; the sign shown is the sign bit.
C10_SubnormalAndNormal ==
    Classified =>
        LET fmt == FP_CONFIG[call.self]
            s   == RefSign(call.fp_str, fmt)
            e   == RefExponent(call.fp_str, fmt)
            m   == RefMantissa(call.fp_str, fmt)
        IN  /\ (AllZero(e) /\ ~AllZero(m)) =>
                   result.value = Rendered("Subnormal", s, 1 - RefBias(fmt), "0", m)
            /\ (~AllZero(e) /\ ~AllOnes(e)) =>
                   result.value = Rendered("Normal", s, RefNat(e) - RefBias(fmt), "1", m)

C10_Witness ==
    /\ Classified
    /\ call.self = "FP32"
    /\ call.fp_str = <<"0", "b">> \o Rep("0", 31) \o <<"1">>
    /\ result.value = Rendered("Subnormal", <<"0">>, -126, "0", Rep("0", 22) \o <<"1">>)

\* the smallest FP8_E4M3 subnormal is reported with exponent -6
C10_WitnessE4M3 ==
    /\ Classified
    /\ call.self = "FP8_E4M3"
    /\ call.fp_str = <<"0", "x", "0", "1">>
    /\ result.value = Rendered("Subnormal", <<"0">>, -6, "0", <<"0", "0", "1">>)

=============================================================================
